---------------------------- MODULE Spec2Model ----------------------------
(***************************************************************************)
(* A model of confluence-markdown-export.py: the Exporter (dump,           *)
(* __dump_space, __dump_page, __sanitize_filename) and the Converter's     *)
(* __convert_atlassian_html.                                               *)
(*                                                                         *)
(* A Python str is a sequence of one-character strings, so that            *)
(* str.replace, the "in" test and os.path.join act on characters as they   *)
(* do in the program.                                                      *)
(***************************************************************************)
EXTENDS Naturals, Sequences, FiniteSets, TLC

VARIABLES
    space,      \* Exporter.__space: the --space filter, or None
    no_attach,  \* Exporter.__no_attach: --skip-attachments
    no_fetch,   \* args.no_fetch: --no-fetch
    pc,         \* where the run is: "main", "dump", "page", "done", "raised",
                \* and "convert" once Converter.convert has been called
    err,        \* the exception that ended the run, or None
    spaces,     \* ret["results"] of get_all_spaces
    spaceIdx,   \* position of dump's for loop in spaces
    seen,       \* Exporter.__seen
    stack,      \* the active __dump_page calls, the innermost last
    files,      \* the regular files below out_dir: path -> content
    dirs,       \* the directories os.makedirs has created
    log,        \* the requests sent and the files opened, in order
    pages,      \* the pages the store has returned so far: id -> title, children
    nBackRefs,  \* references to already mentioned pages handed out so far
    nAtt,       \* attachments listed so far
    sanIn,      \* __sanitize_filename: the argument document_name_raw
    sanOut,     \* the values returned by successive applications to it
    sanPc,      \* "in" before the first call, "once" and "twice" after
    doc0,       \* __convert_atlassian_html: the nodes of the soup it is given
    doc,        \* the nodes of the soup now
    images,     \* the result of soup.find_all("ac:image")
    imgIdx,     \* position of the loop in images
    normPc,     \* "in", "loop", "returned", "raised"
    tree0,      \* Converter.convert: the entries below out_dir before the pass
    tree,       \* the entries below out_dir now: path -> kind, data, target
    tree1,      \* the entries when the pass was started a second time
    scan,       \* the active recurse_findfiles generators, the innermost last
    convPc,     \* "start", "scan", "done", "raised"
    convErr,    \* the exception that ended the pass, or None
    run         \* 1 in the first pass over the tree, 2 in the second

exportVars == <<space, no_attach, no_fetch, pc, err, spaces, spaceIdx, seen, stack,
                files, dirs, log, pages, nBackRefs, nAtt>>

sanVars == <<sanIn, sanOut, sanPc>>

\* the variables of the parts that are pure functions of their input
normVars == <<doc0, doc, images, imgIdx, normPc>>

\* the variables of the conversion pass
convVars == <<tree0, tree, tree1, scan, convPc, convErr, run>>

pureVars == <<sanVars, normVars, convVars>>

vars == <<exportVars, pureVars>>

(***************************************************************************)
(* Bounds of the model.                                                    *)
(***************************************************************************)
\* the longest raw name handed to __sanitize_filename on its own
MaxLen == 5
\* the most nodes of a document handed to __convert_atlassian_html: sibling
\* nodes and the children of its ac:image nodes together
MaxDoc == 4
\* the most pages and attachments the content store holds together; page ids
\* are 1..MaxStore
MaxStore == 4
\* the longest child id list of a page
MaxChildren == 2
\* the most spaces get_all_spaces returns
MaxSpaces == 2
\* the most references to an already mentioned page id (a second parent, a
\* cycle, a repeated child, a shared homepage) the store hands out in one run
MaxBackRefs == 1

\* Python's None where a str may stand: no sequence of characters
None == <<"None">>

\* no exception
NoErr == "None"

(***************************************************************************)
(* Python str operations.                                                  *)
(***************************************************************************)
\* sub in s
Contains(s, sub) ==
    \E i \in 1..(Len(s) + 1 - Len(sub)) : SubSeq(s, i, i + Len(sub) - 1) = sub

\* s.startswith(sub)
StartsWith(s, sub) ==
    Len(s) >= Len(sub) /\ SubSeq(s, 1, Len(sub)) = sub

Range(f) == {f[x] : x \in DOMAIN f}

\* s.endswith(sub)
EndsWith(s, sub) ==
    Len(s) >= Len(sub) /\ SubSeq(s, Len(s) + 1 - Len(sub), Len(s)) = sub

RECURSIVE ReplaceFirst(_, _, _)
\* a replace that stops after the first occurrence (str.replace(old, new, 1))
ReplaceFirst(s, old, new) ==
    IF Len(s) < Len(old) THEN s
    ELSE IF SubSeq(s, 1, Len(old)) = old
         THEN new \o SubSeq(s, Len(old) + 1, Len(s))
         ELSE <<Head(s)>> \o ReplaceFirst(Tail(s), old, new)

RECURSIVE Replace(_, _, _)
\* s.replace(old, new): every non-overlapping occurrence, left to right
Replace(s, old, new) ==
    IF Len(s) < Len(old) THEN s
    ELSE IF SubSeq(s, 1, Len(old)) = old
         THEN new \o Replace(SubSeq(s, Len(old) + 1, Len(s)), old, new)
         ELSE <<Head(s)>> \o Replace(Tail(s), old, new)

RECURSIVE Str(_)
\* the characters of s as one string, to compare with a literal
Str(s) == IF s = <<>> THEN "" ELSE Head(s) \o Str(Tail(s))

(***************************************************************************)
(* Exporter.__sanitize_filename                                            *)
(***************************************************************************)
DotDot == <<".", ".">>
Slash == <<"/">>

\* the list the loop runs over: ["..", "/"]
Invalid == <<DotDot, Slash>>

ReplacementDot == <<".">>

\* the replacement "_"
Replacement == <<"_">>

\* one turn of the loop: replace when the invalid substring is present
SanitizeStep(document_name, invalid) ==
    IF Contains(document_name, invalid)
    THEN Replace(document_name, invalid, Replacement)
    ELSE document_name

RECURSIVE SanitizeLoop(_, _)
SanitizeLoop(document_name, k) ==
    IF k > Len(Invalid) THEN document_name
    ELSE SanitizeLoop(SanitizeStep(document_name, Invalid[k]), k + 1)

sanitize_identity(document_name_raw) == document_name_raw

sanitize_filename(document_name_raw) == SanitizeLoop(document_name_raw, 1)

\* whether the "Dangerous page title" warning is printed for a name
SanitizeWarns(document_name_raw) ==
    \/ Contains(document_name_raw, DotDot)
    \/ Contains(SanitizeStep(document_name_raw, DotDot), Slash)

(***************************************************************************)
(* os.path (posixpath)                                                     *)
(***************************************************************************)
RECURSIVE PathJoin(_, _)
\* os.path.join(a, *p): a component that starts with "/" discards what came
\* before it; a separator is added unless the path is empty or ends in one
PathJoin(a, p) ==
    IF p = <<>> THEN a
    ELSE LET b == Head(p)
             path == IF StartsWith(b, Slash) THEN b
                     ELSE IF a = <<>> \/ EndsWith(a, Slash) THEN a \o b
                     ELSE a \o Slash \o b
         IN PathJoin(path, Tail(p))

\* the position of the last "/" of p, 0 when it has none (p.rfind("/") + 1)
LastSlash(p) ==
    LET at == {i \in 1..Len(p) : p[i] = "/"}
    IN IF at = {} THEN 0 ELSE CHOOSE i \in at : \A j \in at : j <= i

RECURSIVE RStripSlash(_)
\* head.rstrip("/")
RStripSlash(p) ==
    IF p # <<>> /\ p[Len(p)] = "/" THEN RStripSlash(SubSeq(p, 1, Len(p) - 1))
    ELSE p

\* os.path.dirname(p)
DirName(p) ==
    LET head == SubSeq(p, 1, LastSlash(p))
    IN IF head # <<>> /\ \E i \in 1..Len(head) : head[i] # "/"
       THEN RStripSlash(head)
       ELSE head

\* os.path.basename(p)
BaseName(p) == SubSeq(p, LastSlash(p) + 1, Len(p))

\* os.makedirs(d, exist_ok=True): d and every missing directory above it
MakeDirs(d) ==
    {SubSeq(d, 1, k) : k \in {i \in 1..Len(d) : i = Len(d) \/ d[i + 1] = "/"}}
        \ {<<>>}

(***************************************************************************)
(* The program's constants and the run's arguments.                        *)
(***************************************************************************)
\* ATTACHMENT_FOLDER_NAME
ATTACHMENT_FOLDER_NAME == <<"a", "t", "t", "a", "c", "h", "m", "e", "n", "t", "s">>

\* extension = ".html"
Extension == <<".", "h", "t", "m", "l">>

\* document_name = "index"
Index == <<"i", "n", "d", "e", "x">>

\* the out_dir argument
OutDir == <<"o", "u", "t">>

DuplicateMsg == "Duplicate Page ID Found!"
NoHomepageMsg == "No homepage found"
HTTPError == "HTTPError"

(***************************************************************************)
(* What the content store holds.  Page ids are 1..MaxStore; the title of a *)
(* page, the key of the i-th space and the title of a page's i-th          *)
(* attachment come from catalogues that hold ordinary names, the name      *)
(* "index" and names with "..", "/" and a final ".".                       *)
(***************************************************************************)
Ids == 1..MaxStore

PageTitles == <<
    <<"H", "o", "m", "e">>,
    <<"G", "e", "t", "t", "i", "n", "g", " ", "S", "t", "a", "r", "t", "e", "d">>,
    <<"i", "n", "d", "e", "x">>,
    <<".", ".", "/", "v", ".">>,
    <<"a", "/", "b">>,
    <<"N", "o", "t", "e", "s">> >>

\* page["title"] of get_page_by_id(id)
TitleOf(id) == PageTitles[((id - 1) % Len(PageTitles)) + 1]

SpaceKeys == <<
    <<"D", "O", "C", "S">>,
    <<"S", "/", ".", ".">>,
    <<"O", "P", "S">>,
    <<"K", "B">> >>

\* space["key"] of the i-th space of get_all_spaces
SpaceKeyOf(i) == SpaceKeys[((i - 1) % Len(SpaceKeys)) + 1]

AttTitles == <<
    <<".", ".", "/", "s", "e", "c", "r", "e", "t", ".", "p", "n", "g">>,
    <<"a", ".", "p", "n", "g">>,
    <<"b", "/", "c">>,
    <<"d", ".", "p", "d", "f">> >>

\* i["title"] of the i-th attachment of a page
AttTitleOf(i) == AttTitles[((i - 1) % Len(AttTitles)) + 1]

\* r.status_code of the attachment download
Statuses == {200, 404, 500}

\* the page ids the store has mentioned so far: homepages and children
Known ==
    UNION {Range(spaces[i].homepage) : i \in 1..Len(spaces)}
        \cup UNION {{pages[p].children[k] : k \in 1..Len(pages[p].children)} :
                     p \in DOMAIN pages}

\* the entries of an id list that name a page of `known` or repeat an entry
BackRefs(ids, known) ==
    {k \in 1..Len(ids) :
        ids[k] \in known \/ \E j \in 1..(k - 1) : ids[j] = ids[k]}

RECURSIVE Flatten(_)
\* the concatenation of a sequence of sequences
Flatten(ss) == IF ss = <<>> THEN <<>> ELSE Head(ss) \o Flatten(Tail(ss))

\* space.get("homepage"): <<>> for None, <<id>> for {"id": id}
Homepages == {<<>>} \cup {<<id>> : id \in Ids}

\* get_child_id_list(page_id): any list of at most MaxChildren page ids
ChildLists ==
    LET known == Known
    IN {cl \in UNION {[1..n -> Ids] : n \in 0..MaxChildren} :
         /\ nBackRefs + Cardinality(BackRefs(cl, known)) <= MaxBackRefs
         /\ Cardinality(known \cup Range(cl)) + nAtt <= MaxStore}

\* ret["results"] of get_all_spaces: at most MaxSpaces spaces, each with a
\* homepage id or none
SpaceLists ==
    {[i \in 1..Len(hp) |-> [key |-> SpaceKeyOf(i), homepage |-> hp[i]]] :
        hp \in {h \in UNION {[1..n -> Homepages] : n \in 0..MaxSpaces} :
                  Cardinality(BackRefs(Flatten(h), {})) <= MaxBackRefs}}

(***************************************************************************)
(* Exporter.__dump_page: the call frames.                                  *)
(***************************************************************************)
\* a call __dump_page(src_id, parents) that has not run yet
Call(src_id, parents) ==
    [src_id |-> src_id, parents |-> parents, at |-> "entry",
     page_title |-> <<>>, child_ids |-> <<>>, sanitized_parents |-> <<>>,
     page_output_dir |-> <<>>, atts |-> <<>>, i |-> 1, c |-> 1]

Top == stack[Len(stack)]

SetTop(f) == [stack EXCEPT ![Len(stack)] = f]

InPage(at) == pc = "page" /\ stack # <<>> /\ Top.at = at

\* an entry of the log; id 0 and status 0 where there is none
Event(op, id, name, path, status) ==
    [op |-> op, id |-> id, name |-> name, path |-> path, status |-> status]

DocumentNameOffByOne(page_title, child_ids) ==
    IF Len(child_ids) > 1 THEN Index ELSE page_title

DocumentNameTitle(page_title, child_ids) == page_title

\* lines 55-58: "index" for a page with children, else the title
DocumentName(page_title, child_ids) ==
    IF Len(child_ids) > 0 THEN Index ELSE page_title

\* the ancestors taken as they come
SanitizedParentsRaw(parents) == parents

\* line 62: list(map(self.__sanitize_filename, parents))
SanitizedParents(parents) ==
    [k \in 1..Len(parents) |-> sanitize_filename(parents[k])]

\* lines 61-65: page_filename
PageFilename(page_title, child_ids, parents) ==
    LET sanitized_filename ==
            sanitize_filename(DocumentName(page_title, child_ids)) \o Extension
        page_location == SanitizedParents(parents) \o <<sanitized_filename>>
    IN PathJoin(OutDir, page_location)

AttFilenameRaw(page_output_dir, att_title) ==
    PathJoin(page_output_dir, <<ATTACHMENT_FOLDER_NAME, att_title>>)

\* lines 85-86: att_filename
AttFilename(page_output_dir, att_title) ==
    PathJoin(page_output_dir,
             <<ATTACHMENT_FOLDER_NAME, sanitize_filename(att_title)>>)

\* line 111: parents=sanitized_parents + [page_title]
ChildParents(sanitized_parents, page_title) ==
    sanitized_parents \o <<page_title>>

\* attachments are listed whatever the option says
AttachmentStepAlways(skip) == "list"

\* line 74: the attachments are fetched unless disabled; otherwise the call
\* goes on to line 107
AttachmentStep(skip) == IF skip THEN "seen" ELSE "list"

\* requests' raise_for_status: raises for 4xx and 5xx
RaisesForStatus(status) == 400 <= status /\ status < 600

\* open(path, "w") and the writes: the file at `path` now holds the content
\* of `kind` ("page" or "attachment") that belongs to page `id`
WriteFile(path, kind, id) ==
    {f \in files : f.path # path} \cup {[path |-> path, kind |-> kind, id |-> id]}

(***************************************************************************)
(* The states every specification starts its idle parts in.                *)
(***************************************************************************)
ExportIdle ==
    /\ space = None
    /\ no_attach = FALSE
    /\ no_fetch = FALSE
    /\ pc = "idle"
    /\ err = NoErr
    /\ spaces = <<>>
    /\ spaceIdx = 1
    /\ seen = {}
    /\ stack = <<>>
    /\ files = {}
    /\ dirs = {}
    /\ log = <<>>
    /\ pages = <<>>
    /\ nBackRefs = 0
    /\ nAtt = 0

SanIdle ==
    /\ sanIn = <<>>
    /\ sanOut = <<>>
    /\ sanPc = "idle"

NormIdle ==
    /\ doc0 = <<>>
    /\ doc = <<>>
    /\ images = <<>>
    /\ imgIdx = 1
    /\ normPc = "idle"

ConvIdle ==
    /\ tree0 = <<>>
    /\ tree = <<>>
    /\ tree1 = <<>>
    /\ scan = <<>>
    /\ convPc = "idle"
    /\ convErr = NoErr
    /\ run = 0

(***************************************************************************)
(* The export run: Exporter(url, token, out_dir, space, no_attach).dump()  *)
(***************************************************************************)
\* the parsed arguments and Exporter.__init__, for every --space,
\* --skip-attachments and --no-fetch
Init ==
    /\ space \in {None} \cup {SpaceKeyOf(i) : i \in 1..MaxSpaces}
    /\ no_attach \in BOOLEAN
    /\ no_fetch \in BOOLEAN
    /\ pc = "main"
    /\ err = NoErr
    /\ spaces = <<>>
    /\ spaceIdx = 1
    /\ seen = {}
    /\ stack = <<>>
    /\ files = {}
    /\ dirs = {}
    /\ log = <<>>
    /\ pages = <<>>
    /\ nBackRefs = 0
    /\ nAtt = 0
    /\ SanIdle
    /\ NormIdle
    /\ ConvIdle

\* an exception that is recorded while the program goes on as if dump had
\* returned (a try/except around dumper.dump())
RaiseAndGoOn(e) ==
    /\ pc' = "done"
    /\ err' = e

\* a raise that nothing catches: the process ends with the traceback
Raise(e) ==
    /\ pc' = "raised"
    /\ err' = e

\* dump, line 127: get_all_spaces
Dump ==
    /\ pc = "main"
    /\ ~no_fetch
    /\ \E ret \in SpaceLists :
        /\ spaces' = ret
        /\ nBackRefs' = Cardinality(BackRefs(
                Flatten([i \in 1..Len(ret) |-> ret[i].homepage]), {}))
        /\ log' = Append(log, Event("get_all_spaces", 0, <<>>, <<>>, 0))
    /\ spaceIdx' = 1
    /\ pc' = "dump"
    /\ UNCHANGED <<pureVars, space, no_attach, no_fetch, err, seen, stack, files, dirs, pages, nAtt>>

\* a filter that is ignored
SelectedAll(s) == TRUE

\* line 131: the space of the loop's turn is selected
Selected(s) == space = None \/ s.key = space

\* dump, lines 130-131: a space the filter does not select
DumpSkip ==
    /\ pc = "dump"
    /\ spaceIdx <= Len(spaces)
    /\ ~Selected(spaces[spaceIdx])
    /\ spaceIdx' = spaceIdx + 1
    /\ UNCHANGED <<pureVars, space, no_attach, no_fetch, pc, err, spaces, seen, stack, files, dirs,
                   log, pages, nBackRefs, nAtt>>

\* the other policy: skip the space and go on with the next
DumpSpaceNoHomepageSkip ==
    /\ pc = "dump"
    /\ spaceIdx <= Len(spaces)
    /\ Selected(spaces[spaceIdx])
    /\ spaces[spaceIdx].homepage = <<>>
    /\ spaceIdx' = spaceIdx + 1
    /\ UNCHANGED <<pureVars, space, no_attach, no_fetch, pc, err, spaces, seen, stack, files, dirs,
                   log, pages, nBackRefs, nAtt>>

\* __dump_space, lines 116-119: no homepage
DumpSpaceNoHomepage ==
    /\ pc = "dump"
    /\ spaceIdx <= Len(spaces)
    /\ Selected(spaces[spaceIdx])
    /\ spaces[spaceIdx].homepage = <<>>
    /\ Raise(NoHomepageMsg)
    /\ UNCHANGED <<pureVars, space, no_attach, no_fetch, spaces, spaceIdx, seen, stack, files, dirs,
                   log, pages, nBackRefs, nAtt>>

\* __dump_space, lines 120-123: recurse from the homepage
DumpSpace ==
    /\ pc = "dump"
    /\ spaceIdx <= Len(spaces)
    /\ Selected(spaces[spaceIdx])
    /\ spaces[spaceIdx].homepage # <<>>
    /\ stack' = <<Call(spaces[spaceIdx].homepage[1], <<spaces[spaceIdx].key>>)>>
    /\ pc' = "page"
    /\ UNCHANGED <<pureVars, space, no_attach, no_fetch, err, spaces, spaceIdx, seen, files, dirs,
                   log, pages, nBackRefs, nAtt>>

\* dump returns when its loop is over
DumpReturn ==
    /\ pc = "dump"
    /\ spaceIdx > Len(spaces)
    /\ pc' = "done"
    /\ UNCHANGED <<pureVars, space, no_attach, no_fetch, err, spaces, spaceIdx, seen, stack, files,
                   dirs, log, pages, nBackRefs, nAtt>>

\* a revisit that returns without a word
DumpPageDuplicateSkip ==
    /\ InPage("entry")
    /\ Top.src_id \in seen
    /\ stack' = SubSeq(stack, 1, Len(stack) - 1)
    /\ IF Len(stack) = 1
       THEN pc' = "dump" /\ spaceIdx' = spaceIdx + 1
       ELSE UNCHANGED <<pc, spaceIdx>>
    /\ UNCHANGED <<pureVars, space, no_attach, no_fetch, err, spaces, seen, files, dirs, log, pages,
                   nBackRefs, nAtt>>

\* __dump_page, lines 40-42: the id has been seen
DumpPageDuplicate ==
    /\ InPage("entry")
    /\ Top.src_id \in seen
    /\ Raise(DuplicateMsg)
    /\ UNCHANGED <<pureVars, space, no_attach, no_fetch, spaces, spaceIdx, seen, stack, files, dirs,
                   log, pages, nBackRefs, nAtt>>

\* __dump_page, lines 44-71: fetch the page and its child ids, write the file
DumpPageExport ==
    /\ InPage("entry")
    /\ Top.src_id \notin seen
    /\ \E child_ids \in ChildLists :
        LET page_id == Top.src_id
            page_title == TitleOf(page_id)
            page_filename == PageFilename(page_title, child_ids, Top.parents)
            page_output_dir == DirName(page_filename)
        IN /\ pages' = (page_id :> [title |-> page_title, children |-> child_ids])
                            @@ pages
           /\ nBackRefs' = nBackRefs + Cardinality(BackRefs(child_ids, Known))
           /\ dirs' = dirs \cup MakeDirs(page_output_dir)
           /\ files' = WriteFile(page_filename, "page", page_id)
           /\ log' = log \o
                <<Event("get_page_by_id", page_id, page_title, <<>>, 0),
                  Event("write_page", page_id, page_title, page_filename, 0)>>
           /\ stack' = SetTop([Top EXCEPT
                !.at = AttachmentStep(no_attach),
                !.page_title = page_title,
                !.child_ids = child_ids,
                !.sanitized_parents = SanitizedParents(Top.parents),
                !.page_output_dir = page_output_dir])
    /\ UNCHANGED <<pureVars, space, no_attach, no_fetch, pc, err, spaces, spaceIdx, seen, nAtt>>

\* lines 74-76: get_attachments_from_content
ListAttachments ==
    /\ InPage("list")
    /\ \E n \in 0..(MaxStore - (Cardinality(Known) + nAtt)) :
        /\ stack' = SetTop([Top EXCEPT !.at = "attachments",
                                       !.atts = [k \in 1..n |-> AttTitleOf(k)],
                                       !.i = 1])
        /\ nAtt' = nAtt + n
    /\ log' = Append(log, Event("get_attachments", Top.src_id, <<>>, <<>>, 0))
    /\ UNCHANGED <<pureVars, space, no_attach, no_fetch, pc, err, spaces, spaceIdx, seen, files, dirs,
                   pages, nBackRefs>>

\* the attachment of the loop's turn (lines 77-94) is requested and answered
\* with `status`; os.makedirs(att_dirname) has run before the request, and
\* the file is opened and written when `saved`
AttRequest(status, saved) ==
    /\ InPage("attachments")
    /\ Top.i <= Len(Top.atts)
    /\ LET att_title == Top.atts[Top.i]
           att_filename == AttFilename(Top.page_output_dir, att_title)
       IN /\ dirs' = dirs \cup MakeDirs(DirName(att_filename))
          /\ log' = log \o <<Event("GET", Top.src_id, att_title, att_filename, status)>>
                \o IF saved
                   THEN <<Event("write_att", Top.src_id, att_title, att_filename, 0)>>
                   ELSE <<>>
          /\ files' = IF saved THEN WriteFile(att_filename, "attachment", Top.src_id)
                      ELSE files

AttachmentNotFoundRaises ==
    /\ AttRequest(404, FALSE)
    /\ Raise(HTTPError)
    /\ UNCHANGED <<pureVars, space, no_attach, no_fetch, spaces, spaceIdx, seen, stack, pages,
                   nBackRefs, nAtt>>

\* lines 95-98: a 404 is printed and the loop continues
AttachmentNotFound ==
    /\ AttRequest(404, FALSE)
    /\ stack' = SetTop([Top EXCEPT !.i = @ + 1])
    /\ UNCHANGED <<pureVars, space, no_attach, no_fetch, pc, err, spaces, spaceIdx, seen, pages,
                   nBackRefs, nAtt>>

\* lines 95-101: another status of 400 or more, which raise_for_status raises
AttachmentError ==
    /\ \E status \in Statuses :
        /\ 400 <= status
        /\ status # 404
        /\ RaisesForStatus(status)
        /\ AttRequest(status, FALSE)
    /\ Raise(HTTPError)
    /\ UNCHANGED <<pureVars, space, no_attach, no_fetch, spaces, spaceIdx, seen, stack, pages,
                   nBackRefs, nAtt>>

\* lines 103-105: the body is written to att_filename
AttachmentSave ==
    /\ \E status \in Statuses :
        /\ ~(400 <= status) \/ (400 <= status /\ status # 404 /\ ~RaisesForStatus(status))
        /\ AttRequest(status, TRUE)
    /\ stack' = SetTop([Top EXCEPT !.i = @ + 1])
    /\ UNCHANGED <<pureVars, space, no_attach, no_fetch, pc, err, spaces, spaceIdx, seen, pages,
                   nBackRefs, nAtt>>

\* a page that is not recorded as seen
MarkSeenForgets ==
    /\ \/ InPage("seen")
       \/ InPage("attachments") /\ Top.i > Len(Top.atts)
    /\ stack' = SetTop([Top EXCEPT !.at = "children", !.c = 1])
    /\ log' = Append(log, Event("seen", Top.src_id, <<>>, <<>>, 0))
    /\ UNCHANGED <<pureVars, space, no_attach, no_fetch, pc, err, spaces, spaceIdx, seen,
                   files, dirs, pages, nBackRefs, nAtt>>

\* line 107: self.__seen.add(page_id)
MarkSeen ==
    /\ \/ InPage("seen")
       \/ InPage("attachments") /\ Top.i > Len(Top.atts)
    /\ seen' = seen \cup {Top.src_id}
    /\ stack' = SetTop([Top EXCEPT !.at = "children", !.c = 1])
    /\ log' = Append(log, Event("seen", Top.src_id, <<>>, <<>>, 0))
    /\ UNCHANGED <<pureVars, space, no_attach, no_fetch, pc, err, spaces, spaceIdx, files, dirs, pages,
                   nBackRefs, nAtt>>

\* the children taken from the end of the list
RecurseChildReversed ==
    /\ InPage("children")
    /\ Top.c <= Len(Top.child_ids)
    /\ stack' = Append(SetTop([Top EXCEPT !.c = @ + 1]),
                       Call(Top.child_ids[Len(Top.child_ids) + 1 - Top.c],
                            ChildParents(Top.sanitized_parents, Top.page_title)))
    /\ UNCHANGED <<pureVars, space, no_attach, no_fetch, pc, err, spaces, spaceIdx, seen,
                   files, dirs, log, pages, nBackRefs, nAtt>>

\* lines 110-111: the call for the next child
RecurseChild ==
    /\ InPage("children")
    /\ Top.c <= Len(Top.child_ids)
    /\ stack' = Append(SetTop([Top EXCEPT !.c = @ + 1]),
                       Call(Top.child_ids[Top.c],
                            ChildParents(Top.sanitized_parents, Top.page_title)))
    /\ UNCHANGED <<pureVars, space, no_attach, no_fetch, pc, err, spaces, spaceIdx, seen, files, dirs,
                   log, pages, nBackRefs, nAtt>>

\* a visited set that holds the pages of the active calls only: the page is
\* taken out when its call returns
DumpPageReturnUnmark ==
    /\ InPage("children")
    /\ Top.c > Len(Top.child_ids)
    /\ stack' = SubSeq(stack, 1, Len(stack) - 1)
    /\ seen' = seen \ {Top.src_id}
    /\ IF Len(stack) = 1
       THEN pc' = "dump" /\ spaceIdx' = spaceIdx + 1
       ELSE UNCHANGED <<pc, spaceIdx>>
    /\ UNCHANGED <<pureVars, space, no_attach, no_fetch, err, spaces, files, dirs, log,
                   pages, nBackRefs, nAtt>>

\* __dump_page returns; the homepage's call returns to dump's loop
DumpPageReturn ==
    /\ InPage("children")
    /\ Top.c > Len(Top.child_ids)
    /\ stack' = SubSeq(stack, 1, Len(stack) - 1)
    /\ IF Len(stack) = 1
       THEN pc' = "dump" /\ spaceIdx' = spaceIdx + 1
       ELSE UNCHANGED <<pc, spaceIdx>>
    /\ UNCHANGED <<pureVars, space, no_attach, no_fetch, err, spaces, seen, files, dirs, log, pages,
                   nBackRefs, nAtt>>

\* __main__, line 200: with --no-fetch no Exporter runs, and lines 205-206
\* call the Converter at once
MainNoFetch ==
    /\ pc = "main"
    /\ no_fetch
    /\ pc' = "convert"
    /\ log' = Append(log, Event("convert", 0, <<>>, OutDir, 0))
    /\ UNCHANGED <<pureVars, space, no_attach, no_fetch, err, spaces, spaceIdx, seen, stack,
                   files, dirs, pages, nBackRefs, nAtt>>

\* __main__, lines 203-206: dumper.dump() has returned and
\* converter.convert() is called
MainConvert ==
    /\ pc = "done"
    /\ pc' = "convert"
    /\ log' = Append(log, Event("convert", 0, <<>>, OutDir, 0))
    /\ UNCHANGED <<pureVars, space, no_attach, no_fetch, err, spaces, spaceIdx, seen, stack,
                   files, dirs, pages, nBackRefs, nAtt>>

Next ==
    \/ Dump
    \/ DumpSkip
    \/ DumpSpaceNoHomepage
    \/ DumpSpace
    \/ DumpReturn
    \/ DumpPageDuplicate
    \/ DumpPageExport
    \/ ListAttachments
    \/ AttachmentNotFound
    \/ AttachmentError
    \/ AttachmentSave
    \/ MarkSeen
    \/ RecurseChild
    \/ DumpPageReturn
    \/ MainNoFetch
    \/ MainConvert

Spec == Init /\ [][Next]_vars

(***************************************************************************)
(* What the log and the store's answers say about a run.                   *)
(***************************************************************************)
\* the positions of the log where a page's content file was written
PageWrites == {k \in 1..Len(log) : log[k].op = "write_page"}

\* the positions of the log where an attachment's file was written
AttWrites == {k \in 1..Len(log) : log[k].op = "write_att"}

\* a path below out_dir, relative to it
RelPath(p) == SubSeq(p, Len(OutDir) + 2, Len(p))

\* the number of segments of a path: one more than its separators
Segments(p) == 1 + Cardinality({i \in 1..Len(p) : p[i] = "/"})

\* the pages whose child id list names p
ParentsOf(p) == {q \in DOMAIN pages : p \in Range(pages[q].children)}

\* the spaces whose homepage is p
HomeOf(p) == {i \in 1..Len(spaces) : spaces[i].homepage = <<p>>}

RECURSIVE UniquelyPlaced(_)
\* p has one place in the source forest: it is the homepage of one space and
\* nobody's child, or the child, named once, of one page that has one place
UniquelyPlaced(p) ==
    IF HomeOf(p) # {}
    THEN Cardinality(HomeOf(p)) = 1 /\ ParentsOf(p) = {}
    ELSE /\ Cardinality(ParentsOf(p)) = 1
         /\ LET q == CHOOSE q \in ParentsOf(p) : TRUE
            IN /\ Cardinality({k \in DOMAIN pages[q].children :
                                 pages[q].children[k] = p}) = 1
               /\ UniquelyPlaced(q)

RECURSIVE Depth(_)
\* the depth of a uniquely placed page in the source tree of its space, as
\* the number of pages on the way from the homepage down to it (a homepage
\* has depth 1): the segments a path has besides the space key
Depth(p) ==
    IF HomeOf(p) # {} THEN 1
    ELSE 1 + Depth(CHOOSE q \in ParentsOf(p) : TRUE)

RECURSIVE Ancestors(_)
\* the pages above a uniquely placed page
Ancestors(p) ==
    IF HomeOf(p) # {} THEN {}
    ELSE LET q == CHOOSE q \in ParentsOf(p) : TRUE IN {q} \cup Ancestors(q)

(***************************************************************************)
(* C1: whenever __dump_page is entered with a page id that is in the       *)
(* visited set it raises the duplicate-page error, before any request and  *)
(* any write for that id; no page is skipped silently and none is written  *)
(* a second time in a run.                                                 *)
(***************************************************************************)
C1_DuplicateRaises ==
    /\ [](\A k, j \in PageWrites : log[k].id = log[j].id => k = j)
    /\ [][(InPage("entry") /\ Top.src_id \in seen)
            => /\ pc' = "raised"
               /\ err' = DuplicateMsg
               /\ UNCHANGED <<log, files, dirs, seen, pages>>]_vars

\* a call for a page that was exported before has raised
C1_Witness ==
    /\ err = DuplicateMsg
    /\ Top.src_id \in seen
    /\ \E k \in PageWrites : log[k].id = Top.src_id

(***************************************************************************)
(* C2: the name of a page's document is "index.html" when the page has     *)
(* children, whatever its title, and sanitize(title) + ".html" when it has *)
(* none.                                                                   *)
(***************************************************************************)
C2_DocumentName ==
    \A k \in PageWrites :
        BaseName(log[k].path) =
            IF Len(pages[log[k].id].children) > 0
            THEN Index \o Extension
            ELSE sanitize_filename(pages[log[k].id].title) \o Extension

\* a page with children whose title is not "index" and a leaf whose title
\* sanitization changes have both been written
C2_Witness ==
    /\ \E k \in PageWrites : /\ pages[log[k].id].children # <<>>
                              /\ pages[log[k].id].title # Index
    /\ \E k \in PageWrites : /\ pages[log[k].id].children = <<>>
                              /\ SanitizeWarns(pages[log[k].id].title)

(***************************************************************************)
(* C4: when dump reaches a selected space without a homepage it raises the *)
(* no-homepage error: nothing is fetched or written for that space, the    *)
(* files written before stay, and nothing happens after the raise, so no   *)
(* later space is processed.                                               *)
(***************************************************************************)
C4_NoHomepageAborts ==
    [][/\ pc # "raised"
       /\ (/\ pc = "dump"
           /\ spaceIdx <= Len(spaces)
           /\ Selected(spaces[spaceIdx])
           /\ spaces[spaceIdx].homepage = <<>>)
          => /\ pc' = "raised"
             /\ err' = NoHomepageMsg
             /\ UNCHANGED <<log, files, dirs, seen, pages, spaceIdx, stack>>]_vars

\* the run has ended at a space without a homepage while a later selected
\* space with a homepage is left unprocessed
C4_Witness ==
    /\ pc = "raised"
    /\ err = NoHomepageMsg
    /\ spaceIdx < Len(spaces)
    /\ Selected(spaces[spaceIdx + 1])
    /\ spaces[spaceIdx + 1].homepage # <<>>
    /\ log = <<Event("get_all_spaces", 0, <<>>, <<>>, 0)>>

(***************************************************************************)
(* C5: a 404 for an attachment writes no file and the loop goes on with    *)
(* the next attachment and the rest of the run; any other error status     *)
(* writes no file and ends the run, after which nothing more is processed. *)
(***************************************************************************)
C5_AttachmentStatus ==
    [][/\ pc # "raised"
       /\ (Len(log') > Len(log) /\ log'[Len(log) + 1].op = "GET")
          => LET status == log'[Len(log) + 1].status
             IN /\ status = 404
                    => /\ files' = files
                       /\ Len(log') = Len(log) + 1
                       /\ pc' = "page"
                       /\ stack' = SetTop([Top EXCEPT !.i = @ + 1])
                /\ (400 <= status /\ status < 600 /\ status # 404)
                    => /\ files' = files
                       /\ Len(log') = Len(log) + 1
                       /\ pc' = "raised"
                       /\ err' = HTTPError]_vars

\* after a 404 for one attachment of a page, a later attachment of the same
\* page was saved and another page was written
C5_Witness ==
    \E k, j, m \in 1..Len(log) :
        /\ k < j /\ j < m
        /\ log[k].op = "GET" /\ log[k].status = 404
        /\ log[j].op = "write_att" /\ log[j].id = log[k].id
        /\ log[m].op = "write_page" /\ log[m].id # log[k].id

(***************************************************************************)
(* C6 (as the code has it): exporting the space "DOCS" whose homepage      *)
(* (id 1, "Home") has the one child (id 2, "Getting Started", a leaf)      *)
(* writes exactly the two page files DOCS/index.html and                   *)
(* DOCS/Home/Getting Started.html under the output root.                   *)
(***************************************************************************)
\* the page files below the output root, relative to it
PageFiles == {Str(RelPath(f.path)) : f \in {g \in files : g.kind = "page"}}

\* the run over the scenario's store has completed
C6_Scenario ==
    /\ pc = "done"
    /\ space = None
    /\ Len(spaces) = 1
    /\ Str(spaces[1].key) = "DOCS"
    /\ spaces[1].homepage = <<1>>
    /\ DOMAIN pages = {1, 2}
    /\ Str(pages[1].title) = "Home"
    /\ pages[1].children = <<2>>
    /\ Str(pages[2].title) = "Getting Started"
    /\ pages[2].children = <<>>

C6_ScenarioFiles ==
    C6_Scenario
        => PageFiles = {"DOCS/index.html", "DOCS/Home/Getting Started.html"}

C6_Witness == C6_Scenario /\ Cardinality(PageFiles) = 2

\* C6 as claimed: the child's file is DOCS/Getting Started.html
C6_Original ==
    C6_Scenario
        => PageFiles = {"DOCS/index.html", "DOCS/Getting Started.html"}

(***************************************************************************)
(* C7 (as the code has it): an attachment's destination is                 *)
(* pageOutputDir / "attachments" / sanitize(title); the attachment         *)
(* "../secret.png" of the homepage "Home" of space "DOCS" is saved at      *)
(* DOCS/attachments/__secret.png, sanitize("../secret.png") being          *)
(* "__secret.png".                                                         *)
(***************************************************************************)
\* the directory of the content file of a page that was written
PageDirOf(id) == DirName(log[CHOOSE k \in PageWrites : log[k].id = id].path)

\* the log's k-th entry saves "../secret.png" of the homepage "Home" of "DOCS"
C7_Scenario(k) ==
    /\ Str(log[k].name) = "../secret.png"
    /\ Str(pages[log[k].id].title) = "Home"
    /\ UniquelyPlaced(log[k].id)
    /\ \E i \in HomeOf(log[k].id) : Str(spaces[i].key) = "DOCS"

C7_AttachmentPath ==
    \A k \in AttWrites :
        /\ log[k].path = PageDirOf(log[k].id) \o Slash \o ATTACHMENT_FOLDER_NAME
                            \o Slash \o sanitize_filename(log[k].name)
        /\ C7_Scenario(k)
            => /\ Str(RelPath(log[k].path)) = "DOCS/attachments/__secret.png"
               /\ Str(sanitize_filename(log[k].name)) = "__secret.png"

C7_Witness ==
    \E k \in AttWrites :
        /\ C7_Scenario(k)
        /\ \E f \in files : f.path = log[k].path /\ f.kind = "attachment"

\* C7 as claimed: the file is DOCS/attachments/secret.png
C7_Original ==
    \A k \in AttWrites :
        C7_Scenario(k)
            => /\ Str(RelPath(log[k].path)) = "DOCS/attachments/secret.png"
               /\ Str(sanitize_filename(log[k].name)) = "secret.png"

(***************************************************************************)
(* C8: the export path of every page, relative to the output root, has     *)
(* 1 + depth segments, the depth of a page counting the pages from the     *)
(* homepage down to it, whatever "/" and ".." the titles on the way hold.  *)
(***************************************************************************)
C8_PathDepth ==
    \A k \in PageWrites :
        UniquelyPlaced(log[k].id)
            => Segments(RelPath(log[k].path)) = 1 + Depth(log[k].id)

\* a page three levels down, below a page whose title holds "/" and "..",
\* has been written
C8_Witness ==
    \E k \in PageWrites :
        /\ UniquelyPlaced(log[k].id)
        /\ Depth(log[k].id) = 3
        /\ \E q \in Ancestors(log[k].id) :
              Contains(pages[q].title, Slash) /\ Contains(pages[q].title, DotDot)

(***************************************************************************)
(* C12: with a space filter, dump exports exactly the enumerated spaces    *)
(* whose key equals the filter.  For a space whose key does not match, the *)
(* loop moves on: no page is fetched, nothing is written and no error is   *)
(* raised for it, even when it has no homepage.  A call of __dump_page     *)
(* from dump happens only for a space whose key matches (or with no        *)
(* filter), and is for its homepage with the space key as the only parent; *)
(* a matching space is left only by that call returning.                   *)
(***************************************************************************)
\* the key of the space of the loop's turn equals the filter, or there is none
C12_Matches == space = None \/ spaces[spaceIdx].key = space

C12_SpaceFilter ==
    /\ [][(pc = "dump" /\ spaceIdx <= Len(spaces) /\ ~C12_Matches)
            => /\ spaceIdx' = spaceIdx + 1
               /\ UNCHANGED <<pc, err, log, files, dirs, seen, pages, stack>>]_vars
    /\ [][(stack = <<>> /\ stack' # <<>>)
            => /\ C12_Matches
               /\ spaces[spaceIdx].homepage # <<>>
               /\ stack' = <<Call(spaces[spaceIdx].homepage[1],
                                  <<spaces[spaceIdx].key>>)>>]_vars
    /\ [][(pc = "dump" /\ spaceIdx <= Len(spaces) /\ C12_Matches)
            => \/ stack' # <<>> /\ UNCHANGED spaceIdx
               \/ pc' = "raised" /\ spaces[spaceIdx].homepage = <<>>]_vars
    /\ [][(spaceIdx' # spaceIdx /\ spaceIdx <= Len(spaces) /\ C12_Matches)
            => /\ Len(stack) = 1
               /\ stack[1].src_id = spaces[spaceIdx].homepage[1]
               /\ stack[1].src_id \in seen]_vars

\* a finished run with a filter over two spaces: the one whose key does not
\* match has no homepage and was skipped, the other one was exported
C12_Witness ==
    /\ pc = "done"
    /\ space # None
    /\ Len(spaces) = 2
    /\ \E i, j \in 1..2 :
        /\ spaces[i].key # space
        /\ spaces[i].homepage = <<>>
        /\ spaces[j].key = space
        /\ spaces[j].homepage # <<>>
        /\ spaces[j].homepage[1] \in seen

(***************************************************************************)
(* C13: with attachment fetching disabled no attachment listing or         *)
(* retrieval is issued and no attachments directory or attachment file     *)
(* exists in any state of the run.  The page files a finished run has      *)
(* written, with their paths, and its final visited set are determined by  *)
(* the selected spaces and the pages of the store alone, so they are the   *)
(* same with and without attachment fetching.                              *)
(***************************************************************************)
RECURSIVE ExpectedUnder(_, _)
\* the page files, as pairs of page id and path, that the subtree of page p
\* gives when p is exported below the segments `parents`
ExpectedUnder(p, parents) ==
    {<<p, PageFilename(pages[p].title, pages[p].children, parents)>>}
        \cup UNION {ExpectedUnder(pages[p].children[k],
                        SanitizedParents(parents) \o <<pages[p].title>>) :
                    k \in DOMAIN pages[p].children}

\* the page files of the spaces the filter selects
ExpectedPageFiles ==
    UNION {ExpectedUnder(spaces[i].homepage[1], <<spaces[i].key>>) :
            i \in {j \in 1..Len(spaces) :
                     space = None \/ spaces[j].key = space}}

C13_NoAttach ==
    /\ no_attach =>
        /\ \A k \in 1..Len(log) :
                log[k].op \notin {"get_attachments", "GET", "write_att"}
        /\ \A d \in dirs : BaseName(d) # ATTACHMENT_FOLDER_NAME
        /\ \A f \in files : f.kind # "attachment"
        /\ \A k \in 1..Len(stack) : stack[k].at \notin {"list", "attachments"}
    /\ pc = "done" =>
        /\ {<<log[k].id, log[k].path>> : k \in PageWrites} = ExpectedPageFiles
        /\ Cardinality(PageWrites) = Cardinality(ExpectedPageFiles)
        /\ seen = {e[1] : e \in ExpectedPageFiles}

\* a finished run without attachment fetching that exported three pages
C13_Witness ==
    /\ pc = "done"
    /\ no_attach
    /\ Cardinality(seen) >= 3
    /\ Cardinality(PageWrites) >= 3

(***************************************************************************)
(* C14: the export pass terminates for every finite page graph, and never  *)
(* exports a page twice: every step of the run lowers a measure that is a  *)
(* natural number, and a run that has not ended can always take a step.    *)
(* A run completes normally only when the pages reachable from the         *)
(* selected homepages form a forest with unique ids; the duplicate-page    *)
(* error is raised only for a page that is referenced twice (a cycle, a    *)
(* second parent, a repeated child, a homepage shared by two selected      *)
(* spaces or named as a child).  A run over a forest ends normally unless  *)
(* a missing homepage or an attachment error ends it, and a run over a     *)
(* graph that is not a forest ends with an error.                          *)
(***************************************************************************)
\* the steps a call of __dump_page can take before it has recorded its page
\* as seen: the export, the listing and one turn for each attachment
RankCall == MaxStore + 4

\* what one child still to be called weighs: more than its call's own steps
RankChild == RankCall + 1

\* what one page not yet seen weighs: more than the calls for its children
RankPage == RankChild * MaxChildren + 1

\* what one space still to be processed weighs
RankSpace == RankCall + 3

\* the measure of one call of __dump_page
RankOfCall(f) ==
    CASE f.at = "entry" -> RankCall
      [] f.at = "list" -> MaxStore + 3
      [] f.at = "attachments" -> MaxStore + 3 - f.i
      [] f.at = "seen" -> 2
      [] f.at = "children" -> 1 + RankChild * (Len(f.child_ids) + 1 - f.c)

RECURSIVE RankOfCalls(_)
RankOfCalls(st) ==
    IF st = <<>> THEN 0 ELSE RankOfCall(Head(st)) + RankOfCalls(Tail(st))

\* the measure of a state of the run
Rank ==
    (CASE pc = "main" -> RankSpace * MaxSpaces + RankCall + 4
       [] pc = "dump" -> RankSpace * (Len(spaces) + 1 - spaceIdx) + RankCall + 3
       [] pc = "page" -> RankSpace * (Len(spaces) + 1 - spaceIdx) + 1
       [] pc = "done" -> 1
       [] OTHER -> 0)
    + RankPage * (MaxStore - Cardinality(seen))
    + RankOfCalls(stack)

\* the references to page p: as the homepage of a selected space and as an
\* entry of the child id list of an exported page
RefCount(p) ==
    Cardinality({i \in 1..Len(spaces) :
                    /\ space = None \/ spaces[i].key = space
                    /\ spaces[i].homepage = <<p>>})
    + Cardinality({x \in (DOMAIN pages) \X (1..MaxChildren) :
                    /\ x[2] \in DOMAIN pages[x[1]].children
                    /\ pages[x[1]].children[x[2]] = p})

\* every page reachable from the selected homepages is referenced once: the
\* reachable graph is a forest with unique ids (a cycle or a second path to a
\* page gives a page that is referenced twice)
Forest == \A p \in Ids : RefCount(p) <= 1

\* the export pass has ended
ExportEnded == pc \in {"done", "raised", "convert"}

\* a statement of the program is waiting to be run and the store has an
\* answer for its request
CanStep ==
    \/ pc = "main" /\ (no_fetch \/ SpaceLists # {})
    \/ pc = "dump"
    \/ /\ pc = "page"
       /\ stack # <<>>
       /\ \/ Top.at = "entry" /\ (Top.src_id \in seen \/ ChildLists # {})
          \/ Top.at = "list" /\ Cardinality(Known) + nAtt <= MaxStore
          \/ Top.at = "attachments" /\ (Top.i <= Len(Top.atts) => Statuses # {})
          \/ Top.at = "seen"
          \/ Top.at = "children"

C14_Terminates ==
    /\ [][Rank' < Rank]_vars
    /\ [](~ExportEnded => CanStep)
    /\ [](Cardinality(seen) <= MaxStore)
    /\ [](\A j, k \in PageWrites : log[j].id = log[k].id => j = k)
    /\ [](pc = "done" => Forest /\ err = NoErr)
    /\ [](err = DuplicateMsg =>
            /\ ~Forest
            /\ RefCount(Top.src_id) >= 2
            /\ Top.src_id \in seen)
    /\ []((pc = "raised" /\ Forest) => err \in {NoHomepageMsg, HTTPError})
    /\ []((ExportEnded /\ ~Forest) => pc = "raised")

\* the run met a cycle: the page whose call raised is one of its own
\* ancestors in the call stack
C14_Witness ==
    /\ pc = "raised"
    /\ err = DuplicateMsg
    /\ Len(stack) >= 3
    /\ \E k \in 1..(Len(stack) - 1) : stack[k].src_id = Top.src_id

\* C14 as claimed: a forest always completes normally and any other graph
\* always ends with the duplicate-page error
C14_Original ==
    (pc \in {"done", "raised"} /\ ~no_fetch)
        => IF Forest THEN pc = "done" ELSE err = DuplicateMsg

(***************************************************************************)
(* C15: every path the export pass creates or opens below the output root  *)
(* (page files, attachment files, directories) is made of sanitized        *)
(* segments: the first is the sanitized key of a space, a directory        *)
(* segment is the sanitized title of an exported page or "attachments",    *)
(* the name of a page file is a sanitized document name followed by        *)
(* ".html" and the name of an attachment file is its sanitized title.  No  *)
(* segment is ".." and no sanitized name holds ".." or "/"; a page file    *)
(* name holds ".." only where a sanitized title that ends in "." meets the *)
(* extension.                                                              *)
(***************************************************************************)
RECURSIVE Split(_)
\* the segments of a path: p.split("/")
Split(p) ==
    IF ~Contains(p, Slash) THEN <<p>>
    ELSE LET i == CHOOSE i \in 1..Len(p) :
                    p[i] = "/" /\ \A j \in 1..(i - 1) : p[j] # "/"
         IN <<SubSeq(p, 1, i - 1)>> \o Split(SubSeq(p, i + 1, Len(p)))

\* the names that may stand as a directory below the output root
SanitizedKeys == {sanitize_filename(spaces[i].key) : i \in 1..Len(spaces)}

SanitizedTitles == {sanitize_filename(pages[q].title) : q \in DOMAIN pages}

\* a name that holds neither ".." nor "/"
Clean(name) == ~Contains(name, DotDot) /\ ~Contains(name, Slash)

\* the segments of a directory the run has made or written into
CleanDir(segs) ==
    /\ segs # <<>>
    /\ segs[1] \in SanitizedKeys
    /\ \A k \in 2..Len(segs) : segs[k] \in SanitizedTitles
    /\ \A k \in 1..Len(segs) : Clean(segs[k])

\* the path of a page file
CleanPagePath(path, title) ==
    LET segs == Split(RelPath(path))
        last == segs[Len(segs)]
        stem == SubSeq(last, 1, Len(last) - Len(Extension))
    IN /\ StartsWith(path, OutDir \o Slash)
       /\ Len(segs) >= 2
       /\ CleanDir(SubSeq(segs, 1, Len(segs) - 1))
       /\ EndsWith(last, Extension)
       /\ stem \in {Index, sanitize_filename(title)}
       /\ Clean(stem)
       /\ last # DotDot
       /\ Contains(last, DotDot) => stem[Len(stem)] = "."

\* the path of an attachment file
CleanAttPath(path, title) ==
    LET segs == Split(RelPath(path))
    IN /\ StartsWith(path, OutDir \o Slash)
       /\ Len(segs) >= 3
       /\ CleanDir(SubSeq(segs, 1, Len(segs) - 2))
       /\ segs[Len(segs) - 1] = ATTACHMENT_FOLDER_NAME
       /\ segs[Len(segs)] = sanitize_filename(title)
       /\ Clean(segs[Len(segs)])

\* the path of the k-th entry of the log is made of sanitized segments
CleanEvent(k) ==
    /\ log[k].op = "write_page" => CleanPagePath(log[k].path, log[k].name)
    /\ log[k].op \in {"GET", "write_att"} => CleanAttPath(log[k].path, log[k].name)

\* a directory os.makedirs has made is the output root or made of sanitized
\* segments below it
CleanMadeDir(d) ==
    \/ d = OutDir
    \/ /\ StartsWith(d, OutDir \o Slash)
       /\ LET segs == Split(RelPath(d))
          IN \/ CleanDir(segs)
             \/ /\ Len(segs) >= 2
                /\ segs[Len(segs)] = ATTACHMENT_FOLDER_NAME
                /\ CleanDir(SubSeq(segs, 1, Len(segs) - 1))

\* the entries a step has just added to the log: a step adds at most two
Newest == {k \in 1..Len(log) : k >= Len(log) - 1}

\* the log only grows, and files and directories appear only in the steps
\* that log a request or a write with a path, so it is enough to look, in
\* every state, at the newest entries and, after such a step, at the files
\* and directories
C15_SanitizedPaths ==
    /\ \A k \in Newest : CleanEvent(k)
    /\ (files # {} \/ dirs # {}) =>
            (\E k \in 1..Len(log) : log[k].op \in {"write_page", "GET"})
    /\ (\E k \in Newest : log[k].op \in {"write_page", "GET", "write_att"})
        => /\ \A f \in files :
                \E k \in 1..Len(log) :
                    /\ log[k].op \in {"write_page", "write_att"}
                    /\ log[k].path = f.path
           /\ \A d \in dirs : CleanMadeDir(d)

\* a page with the hostile title "../v." was exported with a child, which
\* makes its title a directory, below the space with the hostile key "S/.."
C15_Witness ==
    \E k \in PageWrites :
        /\ Len(Split(RelPath(log[k].path))) >= 3
        /\ Split(RelPath(log[k].path))[1] = sanitize_filename(SpaceKeyOf(2))
        /\ SanitizeWarns(SpaceKeyOf(2))
        /\ \E q \in DOMAIN pages :
            /\ SanitizeWarns(pages[q].title)
            /\ Split(RelPath(log[k].path))[2] = sanitize_filename(pages[q].title)

\* C15 as claimed: no segment of a path that is created or opened holds ".."
C15_Original ==
    \A k \in 1..Len(log) :
        log[k].op \in {"write_page", "GET", "write_att"}
            => \A j \in 1..Len(Split(RelPath(log[k].path))) :
                    Clean(Split(RelPath(log[k].path))[j])

(***************************************************************************)
(* C16: once a fatal condition (duplicate page, missing homepage, an       *)
(* attachment status other than 404 that raise_for_status raises) has been *)
(* raised, nothing more happens in the process: no page is fetched or      *)
(* written, no attachment is retrieved and Converter.convert is not        *)
(* called.  convert is called only when dump has returned without an       *)
(* exception or when --no-fetch skipped the export.                        *)
(***************************************************************************)
C16_FatalStops ==
    /\ [][pc = "raised" => UNCHANGED <<pc, err, log, files, dirs, seen, pages, stack>>]_vars
    /\ [][err' # err => err = NoErr /\ pc' = "raised" /\ UNCHANGED <<files, seen, pages>>]_vars
    /\ [][(pc' = "convert" /\ pc # "convert")
            => \/ pc = "done" /\ err = NoErr /\ ~no_fetch
               \/ pc = "main" /\ no_fetch /\ log = <<>>]_vars
    /\ [](err # NoErr => pc = "raised")
    /\ [](\A k \in 1..Len(log) : log[k].op = "convert" => k = Len(log) /\ err = NoErr)

\* a run that a duplicate page id ended after it had written page files
C16_Witness ==
    /\ pc = "raised"
    /\ err = DuplicateMsg
    /\ PageWrites # {}
    /\ seen # {}

(***************************************************************************)
(* C17: the export pass is a strict depth-first pre-order walk.  The       *)
(* requests and writes for one page stand together in the log, in the      *)
(* order: fetch, content write, attachment listing, each attachment's      *)
(* retrieval and write, visited-set entry; a page is fetched only right    *)
(* after the enumeration of the spaces or after an entry into the visited  *)
(* set.  The pages are written in the pre-order of the forest, each        *)
(* page's children in the order of its child id list, so the whole         *)
(* subtree of a child is exported before anything of the next child.       *)
(***************************************************************************)
\* the k-th entry of the log is about the same page as the one before it
SamePage(k) == log[k - 1].id = log[k].id

\* the k-th entry of the log may follow the one before it
InOrder(k) ==
    LET e == log[k]
        d == log[k - 1]
    IN CASE e.op = "get_page_by_id" -> d.op \in {"get_all_spaces", "seen"}
         [] e.op = "write_page" -> d.op = "get_page_by_id" /\ SamePage(k)
         [] e.op = "get_attachments" -> d.op = "write_page" /\ SamePage(k)
         [] e.op = "GET" ->
                /\ SamePage(k)
                /\ \/ d.op \in {"get_attachments", "write_att"}
                   \/ d.op = "GET" /\ d.status = 404
         [] e.op = "write_att" ->
                /\ SamePage(k)
                /\ d.op = "GET" /\ d.path = e.path /\ d.name = e.name
                /\ d.status < 400
         [] e.op = "seen" ->
                /\ SamePage(k)
                /\ \/ d.op \in {"write_page", "get_attachments", "write_att"}
                   \/ d.op = "GET" /\ d.status = 404
         [] e.op = "convert" -> d.op \in {"get_all_spaces", "seen"}
         [] OTHER -> FALSE

RECURSIVE PreOrder(_, _)
\* the pages a depth-first pre-order walk visits, from the ids still to be
\* visited (the next first) and the ids visited; the walk stops at an id
\* that was visited (the run raises there), at a space without homepage
\* (id 0) and at a page the store has not been asked for yet
PreOrder(todo, visited) ==
    IF todo = <<>> THEN <<>>
    ELSE LET p == Head(todo)
         IN IF p = 0 \/ p \in visited \/ p \notin DOMAIN pages THEN <<>>
            ELSE <<p>> \o PreOrder(pages[p].children \o Tail(todo),
                                   visited \cup {p})

\* the homepages of the selected spaces, in the order of the enumeration,
\* with 0 for a selected space that has none
Roots ==
    LET sel == SelectSeq(spaces, LAMBDA sp : space = None \/ sp.key = space)
    IN [i \in 1..Len(sel) |->
            IF sel[i].homepage = <<>> THEN 0 ELSE sel[i].homepage[1]]

\* the ids of the log's entries with operation op, in order
IdsOf(op) ==
    LET sub == SelectSeq(log, LAMBDA e : e.op = op)
    IN [i \in 1..Len(sub) |-> sub[i].id]

C17_PreOrder ==
    /\ log # <<>> => log[1].op \in {"get_all_spaces", "convert"}
    /\ \A k \in 2..Len(log) : InOrder(k)
    /\ IdsOf("write_page") = PreOrder(Roots, {})
    /\ LET done == IdsOf("seen")
           written == IdsOf("write_page")
       IN /\ Len(done) <= Len(written)
          /\ Len(written) <= Len(done) + 1
          /\ done = SubSeq(written, 1, Len(done))
          /\ seen = Range(done)

\* a finished run over a page with two children, the first of which has a
\* child of its own: that grandchild was written before the second child
C17_Witness ==
    /\ pc = "done"
    /\ \E p \in DOMAIN pages :
        /\ Len(pages[p].children) = 2
        /\ pages[p].children[1] \in DOMAIN pages
        /\ pages[pages[p].children[1]].children # <<>>
        /\ \E j, k \in PageWrites :
            /\ j < k
            /\ log[j].id = pages[pages[p].children[1]].children[1]
            /\ log[k].id = pages[p].children[2]

(***************************************************************************)
(* C18: in a run that completes without error over a forest whose sibling  *)
(* pages have pairwise distinct sanitized titles, no two pages are written *)
(* to the same path, so no page's content file is overwritten by another   *)
(* page of the run.                                                        *)
(***************************************************************************)
\* the children of every exported page have pairwise distinct sanitized
\* titles, and so have the homepages of spaces with the same sanitized key
SiblingsDistinct ==
    /\ \A q \in DOMAIN pages :
        \A i, j \in DOMAIN pages[q].children :
            sanitize_filename(TitleOf(pages[q].children[i]))
                = sanitize_filename(TitleOf(pages[q].children[j])) => i = j
    /\ \A i, j \in 1..Len(spaces) :
        sanitize_filename(spaces[i].key) = sanitize_filename(spaces[j].key)
            => i = j

C18_NoOverwrite ==
    (pc = "done" /\ Forest /\ SiblingsDistinct)
        => /\ \A j, k \in PageWrites : log[j].path = log[k].path => j = k
           /\ \A k \in PageWrites :
                [path |-> log[k].path, kind |-> "page", id |-> log[k].id] \in files

(***************************************************************************)
(* C19: the visited set only grows.  A page is in it only when its content *)
(* file was written, once, and its attachment step has finished; a page    *)
(* whose content file was written and that is not in it is the page of the *)
(* innermost call, which is still in its attachment step or is about to    *)
(* record the page.  When a run completes without error the visited set is *)
(* the set of pages reachable through child links from the homepages of    *)
(* the selected spaces, each written exactly once.                         *)
(***************************************************************************)
RECURSIVE ReachIn(_, _)
\* the pages reachable from the set S in at most n steps through child links
ReachIn(S, n) ==
    IF n = 0 THEN S
    ELSE ReachIn(S \cup UNION {Range(pages[p].children) :
                                p \in S \cap DOMAIN pages}, n - 1)

\* the pages reachable from the homepages of the selected spaces
Reachable ==
    ReachIn(UNION {Range(spaces[i].homepage) :
                    i \in {j \in 1..Len(spaces) :
                             space = None \/ spaces[j].key = space}},
            MaxStore)

\* the positions of the log where page p's content file was written
WritesOf(p) == {k \in PageWrites : log[k].id = p}

\* the attachment step of page p is over: it was skipped, or the listing was
\* asked for and no call for p is before or inside the loop
AttachmentStepOver(p) ==
    /\ no_attach \/ \E k \in 1..Len(log) :
                        log[k].op = "get_attachments" /\ log[k].id = p
    /\ \A k \in 1..Len(stack) :
        stack[k].src_id = p /\ stack[k].at \in {"list", "attachments"}
            => stack[k].at = "attachments" /\ stack[k].i > Len(stack[k].atts)

C19_VisitedSet ==
    /\ [][seen \subseteq seen']_vars
    /\ [](\A p \in seen :
            /\ Cardinality(WritesOf(p)) = 1
            /\ AttachmentStepOver(p)
            /\ \A k \in 1..Len(stack) :
                stack[k].src_id = p => stack[k].at \in {"children", "entry"})
    /\ [](\A p \in Ids :
            (WritesOf(p) # {} /\ p \notin seen)
                => /\ stack # <<>>
                   /\ Top.src_id = p
                   /\ Top.at \in {"list", "attachments", "seen"}
                   /\ Cardinality(WritesOf(p)) = 1
                   /\ AttachmentStepOver(p) =>
                        \/ pc = "raised"
                        \/ Top.at = "seen"
                        \/ Top.at = "attachments" /\ Top.i > Len(Top.atts))
    /\ [](pc = "done" =>
            /\ seen = Reachable
            /\ seen = {log[k].id : k \in PageWrites}
            /\ Cardinality(PageWrites) = Cardinality(seen))

\* a run in the attachment loop of a page that is written but not yet in the
\* visited set, which holds the page's parent
C19_Witness ==
    /\ pc = "page"
    /\ Len(stack) >= 2
    /\ Top.at = "attachments"
    /\ Top.i <= Len(Top.atts)
    /\ Top.i > 1
    /\ Top.src_id \notin seen
    /\ WritesOf(Top.src_id) # {}
    /\ stack[Len(stack) - 1].src_id \in seen

(***************************************************************************)
(* Converter.__convert_atlassian_html                                      *)
(*                                                                         *)
(* The soup is the sequence of sibling nodes that holds the ac:image       *)
(* elements (find_all reaches them at any depth; insert_after and          *)
(* replace_with act on the sequence an image is in).  A node keeps, in     *)
(* nid, its position in the soup as parsed; the nodes the function makes   *)
(* have nid 0.  An ac:image has child nodes: a text node, or an element    *)
(* with or without the ri:filename attribute, which may itself hold        *)
(* elements that carry the attribute.  No ac:image lies within another.    *)
(***************************************************************************)
\* a node of the soup
Node(tag, kids, src, alt) ==
    [tag |-> tag, nid |-> 0, kids |-> kids, src |-> src, alt |-> alt]

\* a child of an ac:image: kind "text" (a NavigableString) or "tag"; filename
\* is <<>> without the ri:filename attribute and <<value>> with it; below
\* holds the ri:filename values of the elements within the child
Kid(kind, filename, below) ==
    [kind |-> kind, filename |-> filename, below |-> below]

FileA == <<"a", ".", "p", "n", "g">>
FileB == <<"/", "b", ".", "p", "n", "g">>
FileC == <<"c", ".", "p", "n", "g">>

KidOptions ==
    { Kid("text", <<>>, <<>>),
      Kid("tag", <<>>, <<>>),
      Kid("tag", <<FileA>>, <<>>),
      Kid("tag", <<FileB>>, <<>>),
      Kid("tag", <<>>, <<FileC>>) }

\* the nodes that count for k of a document's nodes
NodesOf(k) ==
    {Node("ac:image", kids, <<>>, <<>>) : kids \in [1..(k - 1) -> KidOptions]}
        \cup IF k = 1 THEN {Node("p", <<>>, <<>>, <<>>)} ELSE {}

RECURSIVE DocsUpTo(_)
\* the documents of at most w nodes
DocsUpTo(w) ==
    {<<>>} \cup UNION {{<<n>> \o d : n \in NodesOf(k), d \in DocsUpTo(w - k)} :
                          k \in 1..w}

\* the soup as parsed: every node knows its position
Parsed(d) == [n \in 1..Len(d) |-> [d[n] EXCEPT !.nid = n]]

\* the position in the soup of the node that was parsed at position nid
PosOf(soup, nid) == CHOOSE i \in 1..Len(soup) : soup[i].nid = nid

FirstAttributeUrl(image) ==
    LET with == {i \in 1..Len(image.kids) :
                    image.kids[i].kind = "tag" /\ image.kids[i].filename # <<>>}
    IN IF with = {} THEN <<>>
       ELSE image.kids[CHOOSE i \in with : \A j \in with : i <= j].filename

\* lines 150-153: url after the loop that breaks at the first child; <<>> is
\* None.  (Asked only of an image whose first child, if any, is an element.)
FirstChildUrl(image) ==
    IF image.kids = <<>> THEN <<>> ELSE image.kids[1].filename

\* line 152: child.get on a NavigableString raises AttributeError
FirstChildIsText(image) ==
    image.kids # <<>> /\ image.kids[1].kind = "text"

\* lines 160-161: the img tag
ImgTag(url) ==
    LET srcurl == PathJoin(ATTACHMENT_FOLDER_NAME, <<url>>)
    IN Node("img", <<>>, srcurl, srcurl)

\* line 164: soup.new_tag("br")
BrTag == Node("br", <<>>, <<>>, <<>>)

NormInit ==
    /\ doc0 \in {Parsed(d) : d \in DocsUpTo(MaxDoc)}
    /\ doc = doc0
    /\ images = <<>>
    /\ imgIdx = 1
    /\ normPc = "in"
    /\ ExportIdle
    /\ SanIdle
    /\ ConvIdle

RECURSIVE ImagesFrom(_, _)
ImagesFrom(soup, i) ==
    IF i > Len(soup) THEN <<>>
    ELSE (IF soup[i].tag = "ac:image" THEN <<soup[i].nid>> ELSE <<>>)
            \o ImagesFrom(soup, i + 1)

\* line 149: soup.find_all("ac:image")
NormFindAll ==
    /\ normPc = "in"
    /\ images' = ImagesFrom(doc, 1)
    /\ imgIdx' = 1
    /\ normPc' = "loop"
    /\ UNCHANGED <<doc0, doc, exportVars, sanVars, convVars>>

\* the image of the loop's turn
Image == doc[PosOf(doc, images[imgIdx])]

InLoop == normPc = "loop" /\ imgIdx <= Len(images)

\* line 152 raises: the first child is a text node
NormRaise ==
    /\ InLoop
    /\ FirstChildIsText(Image)
    /\ normPc' = "raised"
    /\ UNCHANGED <<doc0, doc, images, imgIdx, exportVars, sanVars, convVars>>

\* lines 155-157: no url, continue
NormContinue ==
    /\ InLoop
    /\ ~FirstChildIsText(Image)
    /\ FirstChildUrl(Image) = <<>>
    /\ imgIdx' = imgIdx + 1
    /\ UNCHANGED <<doc0, doc, images, normPc, exportVars, sanVars, convVars>>

\* lines 159-165: a br after the image, the image replaced by the img tag
NormReplace ==
    /\ InLoop
    /\ ~FirstChildIsText(Image)
    /\ FirstChildUrl(Image) # <<>>
    /\ LET at == PosOf(doc, images[imgIdx])
       IN doc' = SubSeq(doc, 1, at - 1)
                    \o <<ImgTag(FirstChildUrl(Image)[1]), BrTag>>
                    \o SubSeq(doc, at + 1, Len(doc))
    /\ imgIdx' = imgIdx + 1
    /\ UNCHANGED <<doc0, images, normPc, exportVars, sanVars, convVars>>

\* line 166: return soup
NormReturn ==
    /\ normPc = "loop"
    /\ imgIdx > Len(images)
    /\ normPc' = "returned"
    /\ UNCHANGED <<doc0, doc, images, imgIdx, exportVars, sanVars, convVars>>

NormNext == NormFindAll \/ NormRaise \/ NormContinue \/ NormReplace \/ NormReturn

NormSpec == NormInit /\ [][NormNext]_vars

(***************************************************************************)
(* C10 (as the code has it): normalize replaces every ac:image whose first *)
(* child node is an element with the filename attribute by an img whose    *)
(* src and alt are both "attachments/" + that filename (the filename alone *)
(* when it starts with "/"), with a br right after it; an ac:image with no *)
(* child, or whose first child is an element without the attribute, stays  *)
(* as it is and the loop goes on, whatever its later children and deeper   *)
(* descendants carry.  A first child that is a text node raises.           *)
(***************************************************************************)
\* the images the loop has dealt with
Processed == {images[i] : i \in 1..(imgIdx - 1)}

\* the reference the code builds for a filename
RefOf(f) ==
    IF StartsWith(f, Slash) THEN f ELSE ATTACHMENT_FOLDER_NAME \o Slash \o f

\* what a processed node has become
Normalized(node) ==
    IF /\ node.tag = "ac:image"
       /\ node.kids # <<>>
       /\ node.kids[1].kind = "tag"
       /\ node.kids[1].filename # <<>>
    THEN <<Node("img", <<>>, RefOf(node.kids[1].filename[1]),
                             RefOf(node.kids[1].filename[1])), BrTag>>
    ELSE <<node>>

RECURSIVE DescendantFilenames(_)
DescendantFilenames(kids) ==
    IF kids = <<>> THEN <<>>
    ELSE (IF Head(kids).kind = "tag" THEN Head(kids).filename \o Head(kids).below
          ELSE <<>>) \o DescendantFilenames(Tail(kids))

Claimed(node) ==
    IF node.tag = "ac:image" /\ DescendantFilenames(node.kids) # <<>>
    THEN LET ref == ATTACHMENT_FOLDER_NAME \o Slash \o DescendantFilenames(node.kids)[1]
         IN <<Node("img", <<>>, ref, ref), BrTag>>
    ELSE <<node>>

Alphabet == {".", "/", "_", "a"}

RawNames == UNION {[1..n -> Alphabet] : n \in 0..MaxLen}

SanInit ==
    /\ sanIn \in RawNames
    /\ sanOut = <<>>
    /\ sanPc = "in"
    /\ ExportIdle
    /\ NormIdle
    /\ ConvIdle

\* a caller's self.__sanitize_filename(name)
SanCall ==
    /\ sanPc = "in"
    /\ sanOut' = <<sanitize_filename(sanIn)>>
    /\ sanPc' = "once"
    /\ UNCHANGED <<sanIn, exportVars, normVars, convVars>>

\* the next recursion level's map(self.__sanitize_filename, parents) on a
\* segment the parent call had sanitized
SanAgain ==
    /\ sanPc = "once"
    /\ sanOut' = Append(sanOut, sanitize_filename(sanOut[1]))
    /\ sanPc' = "twice"
    /\ UNCHANGED <<sanIn, exportVars, normVars, convVars>>

SanNext == SanCall \/ SanAgain

SanSpec == SanInit /\ [][SanNext]_vars

(***************************************************************************)
(* C3: for every raw name x, sanitize(x) contains neither ".." nor "/".    *)
(***************************************************************************)
C3_NoInvalidLeft ==
    sanPc # "in" => /\ ~Contains(sanOut[1], DotDot)
                    /\ ~Contains(sanOut[1], Slash)

\* the overlapping and adjacent occurrences the claim names have been sanitized
C3_Witness ==
    /\ sanPc = "once"
    /\ Str(sanIn) \in {"...", "....", "./.", "../.."}
    /\ sanOut[1] # sanIn

(***************************************************************************)
(* C9: sanitization is idempotent, sanitize(sanitize(x)) = sanitize(x):    *)
(* re-sanitizing a segment the parent call sanitized leaves it as it was.  *)
(***************************************************************************)
C9_Idempotent ==
    sanPc = "twice" => sanOut[2] = sanOut[1]

\* a name that the first application changed has been sanitized twice
C9_Witness ==
    /\ sanPc = "twice"
    /\ sanOut[1] # sanIn
    /\ Str(sanIn) = "../."

(***************************************************************************)
(* Converter.convert and Converter.recurse_findfiles: the conversion pass  *)
(* over the entries below out_dir.  An entry is a regular file with its    *)
(* data, a directory, or a symbolic link with its target; the tree is a    *)
(* function from paths to entries.                                         *)
(***************************************************************************)
\* line 172: the suffix of the files that are converted
HtmlSuffix == <<".", "h", "t", "m", "l">>

\* line 184: the suffix of the files that are written
MdSuffix == <<".", "m", "d">>

\* the data of an entry that is not a regular file
NoData == [fmt |-> "none", doc |-> <<>>]

\* the text of a file that holds markup: the document bs4 parses from it
Html(d) == [fmt |-> "html", doc |-> d]

\* MarkdownConverter().convert_soup(soup): the text of the converted soup
Markdown(soup) == [fmt |-> "md", doc |-> soup]

File(data) == [kind |-> "file", data |-> data, target |-> <<>>]

Dir == [kind |-> "dir", data |-> NoData, target |-> <<>>]

Link(target) == [kind |-> "link", data |-> NoData, target |-> target]

Absent == [kind |-> "absent", data |-> NoData, target |-> <<>>]

\* documents: plain text, an ac:image that names its file, and an ac:image
\* whose first child is a text node
DocPlain == <<Node("p", <<>>, <<>>, <<>>)>>

DocImage == <<Node("ac:image", <<Kid("tag", <<FileA>>, <<>>)>>, <<>>, <<>>)>>

DocBad == <<Node("ac:image", <<Kid("text", <<>>, <<>>)>>, <<>>, <<>>)>>

\* line 179: bs4.BeautifulSoup(data, 'html.parser'); a text without markup
\* parses to a document without elements of interest
Parse(data) == Parsed(IF data.fmt = "html" THEN data.doc ELSE DocPlain)

RECURSIVE ConvertLoop(_, _, _)
\* lines 149-165 from the k-th image on: the soup the loop leaves, or raised
ConvertLoop(soup, imgs, k) ==
    IF k > Len(imgs) THEN [raised |-> FALSE, soup |-> soup]
    ELSE LET at == PosOf(soup, imgs[k])
             image == soup[at]
         IN IF FirstChildIsText(image) THEN [raised |-> TRUE, soup |-> soup]
            ELSE IF FirstChildUrl(image) = <<>>
                 THEN ConvertLoop(soup, imgs, k + 1)
                 ELSE ConvertLoop(SubSeq(soup, 1, at - 1)
                                    \o <<ImgTag(FirstChildUrl(image)[1]), BrTag>>
                                    \o SubSeq(soup, at + 1, Len(soup)),
                                  imgs, k + 1)

\* Converter.__convert_atlassian_html(soup), as one call
convert_atlassian_html(soup) == ConvertLoop(soup, ImagesFrom(soup, 1), 1)

\* os.path.splitext(p)[0]: the extension starts at the last dot of the last
\* component, unless only dots stand before it in that component
SplitextRoot(p) ==
    LET sepIndex == LastSlash(p)
        dots == {i \in 1..Len(p) : p[i] = "."}
        dotIndex == IF dots = {} THEN 0
                    ELSE CHOOSE i \in dots : \A j \in dots : j <= i
    IN IF /\ dotIndex > sepIndex
          /\ \E i \in (sepIndex + 1)..(dotIndex - 1) : p[i] # "."
       THEN SubSeq(p, 1, dotIndex - 1)
       ELSE p

\* the paths of the trees
PathAHtml == PathJoin(OutDir, <<<<"a">> \o HtmlSuffix>>)

PathAMd == PathJoin(OutDir, <<<<"a">> \o MdSuffix>>)

PathBHtml == PathJoin(OutDir, <<<<"b">> \o HtmlSuffix>>)

\* a file whose whole name is the suffix
PathDotHtml == PathJoin(OutDir, <<HtmlSuffix>>)

PathAttachments == PathJoin(OutDir, <<ATTACHMENT_FOLDER_NAME>>)

PathCHtml == PathJoin(PathAttachments, <<<<"c">> \o HtmlSuffix>>)

PathDPng == PathJoin(PathAttachments, <<<<"d", ".", "p", "n", "g">>>>)

\* what may stand at each path before the pass
Slots == <<
    [path |-> PathAHtml, options |-> {Absent, File(Html(DocImage)), File(Html(DocBad))}],
    [path |-> PathAMd, options |-> {Absent, File(Html(DocPlain)), Dir, Link(PathBHtml)}],
    [path |-> PathBHtml, options |-> {Absent, File(Html(DocPlain))}],
    [path |-> PathDotHtml, options |-> {Absent, File(Html(DocPlain))}],
    [path |-> PathAttachments, options |-> {Absent, Dir}],
    [path |-> PathCHtml, options |-> {Absent, File(Html(DocImage))}],
    [path |-> PathDPng, options |-> {Absent, File(Html(DocPlain))}] >>

\* the tree t with entry e at path p
Put(t, p, e) ==
    IF e.kind = "absent" THEN t
    ELSE [q \in (DOMAIN t) \cup {p} |-> IF q = p THEN e ELSE t[q]]

RECURSIVE TreesFrom(_)
TreesFrom(i) ==
    IF i > Len(Slots) THEN {<<>>}
    ELSE {Put(t, Slots[i].path, e) : t \in TreesFrom(i + 1), e \in Slots[i].options}

\* the trees the pass is run on: an entry lies in out_dir or in a directory
Trees ==
    {t \in TreesFrom(1) :
        \A p \in DOMAIN t :
            DirName(p) = OutDir
                \/ (DirName(p) \in DOMAIN t /\ t[DirName(p)].kind = "dir")}

\* os.scandir(path): the entries of a directory
Children(t, path) == {p \in DOMAIN t : DirName(p) = path}

\* a generator of recurse_findfiles(path) with the entries it has yet to see
Generator(path, pending) == [dir |-> path, pending |-> pending]

ScanTop == scan[Len(scan)]

\* the innermost generator has passed entry e
Passed(e) == [scan EXCEPT ![Len(scan)].pending = @ \ {e}]

\* the entry the innermost os.scandir returns next: in any order
NextEntry(e) ==
    /\ convPc = "scan"
    /\ scan # <<>>
    /\ e \in ScanTop.pending

\* open(path, "w") follows a symbolic link to the file it names
WriteTarget(path) ==
    IF path \in DOMAIN tree /\ tree[path].kind = "link" THEN tree[path].target
    ELSE path

\* lines 183-184: the name of the file the conversion of `path` is written to
NewName(path) == SplitextRoot(path) \o MdSuffix

ConvInit ==
    /\ tree0 \in Trees
    /\ tree = tree0
    /\ tree1 = <<>>
    /\ scan = <<>>
    /\ convPc = "start"
    /\ convErr = NoErr
    /\ run = 1
    /\ ExportIdle
    /\ SanIdle
    /\ NormIdle

\* line 169: recurse_findfiles(self.__out_dir) is started
ConvStart ==
    /\ convPc = "start"
    /\ scan' = <<Generator(OutDir, Children(tree, OutDir))>>
    /\ convPc' = "scan"
    /\ UNCHANGED <<tree0, tree, tree1, convErr, run, exportVars, sanVars, normVars>>

\* lines 141-142: a directory is entered
ScanDir ==
    \E e \in DOMAIN tree :
        /\ NextEntry(e)
        /\ tree[e].kind = "dir"
        /\ scan' = Append(Passed(e), Generator(e, Children(tree, e)))
        /\ UNCHANGED <<tree0, tree, tree1, convPc, convErr, run, exportVars, sanVars,
                       normVars>>

\* lines 145-146: neither a directory nor a regular file; calling
\* NotImplemented raises TypeError
ScanUnsupported ==
    \E e \in DOMAIN tree :
        /\ NextEntry(e)
        /\ tree[e].kind \notin {"dir", "file"}
        /\ convPc' = "raised"
        /\ convErr' = "TypeError"
        /\ UNCHANGED <<tree0, tree, tree1, scan, run, exportVars, sanVars, normVars>>

\* lines 172-173: a regular file whose path does not end in ".html"
ScanSkip ==
    \E e \in DOMAIN tree :
        /\ NextEntry(e)
        /\ tree[e].kind = "file"
        /\ ~EndsWith(e, HtmlSuffix)
        /\ scan' = Passed(e)
        /\ UNCHANGED <<tree0, tree, tree1, convPc, convErr, run, exportVars, sanVars,
                       normVars>>

\* lines 176-180: __convert_atlassian_html raises on the file's document
ConvertRaises ==
    \E e \in DOMAIN tree :
        /\ NextEntry(e)
        /\ tree[e].kind = "file"
        /\ EndsWith(e, HtmlSuffix)
        /\ convert_atlassian_html(Parse(tree[e].data)).raised
        /\ convPc' = "raised"
        /\ convErr' = "AttributeError"
        /\ UNCHANGED <<tree0, tree, tree1, scan, run, exportVars, sanVars, normVars>>

\* line 184: open(newname + ".md", "w") on a directory raises
ConvertIsADirectory ==
    \E e \in DOMAIN tree :
        /\ NextEntry(e)
        /\ tree[e].kind = "file"
        /\ EndsWith(e, HtmlSuffix)
        /\ ~convert_atlassian_html(Parse(tree[e].data)).raised
        /\ WriteTarget(NewName(e)) \in DOMAIN tree
        /\ tree[WriteTarget(NewName(e))].kind = "dir"
        /\ convPc' = "raised"
        /\ convErr' = "IsADirectoryError"
        /\ UNCHANGED <<tree0, tree, tree1, scan, run, exportVars, sanVars, normVars>>

\* lines 176-185: the file is read, parsed, normalized and converted, and
\* the result is written; a file that the write creates may or may not be
\* returned later by the os.scandir of its directory
ConvertWrite ==
    \E e \in DOMAIN tree :
        /\ NextEntry(e)
        /\ tree[e].kind = "file"
        /\ EndsWith(e, HtmlSuffix)
        /\ LET soup == convert_atlassian_html(Parse(tree[e].data))
               dest == WriteTarget(NewName(e))
           IN /\ ~soup.raised
              /\ dest \in DOMAIN tree => tree[dest].kind = "file"
              /\ tree' = Put(tree, dest, File(Markdown(soup.soup)))
              /\ \E later \in IF dest \in DOMAIN tree THEN {FALSE} ELSE BOOLEAN :
                    scan' = [k \in 1..Len(scan) |->
                                Generator(scan[k].dir,
                                    (scan[k].pending
                                        \ (IF k = Len(scan) THEN {e} ELSE {}))
                                    \cup (IF later /\ scan[k].dir = DirName(dest)
                                          THEN {dest} ELSE {}))]
        /\ UNCHANGED <<tree0, tree1, convPc, convErr, run, exportVars, sanVars, normVars>>

\* a generator is exhausted; convert returns with the outermost one
ScanReturn ==
    /\ convPc = "scan"
    /\ scan # <<>>
    /\ ScanTop.pending = {}
    /\ scan' = SubSeq(scan, 1, Len(scan) - 1)
    /\ convPc' = IF Len(scan) = 1 THEN "done" ELSE "scan"
    /\ UNCHANGED <<tree0, tree, tree1, convErr, run, exportVars, sanVars, normVars>>

\* the program is run a second time, with --no-fetch, on the tree it left
ConvAgain ==
    /\ convPc = "done"
    /\ run = 1
    /\ run' = 2
    /\ tree1' = tree
    /\ convPc' = "start"
    /\ UNCHANGED <<tree0, tree, scan, convErr, exportVars, sanVars, normVars>>

ConvNext ==
    \/ ConvStart
    \/ ScanDir
    \/ ScanUnsupported
    \/ ScanSkip
    \/ ConvertRaises
    \/ ConvertIsADirectory
    \/ ConvertWrite
    \/ ScanReturn
    \/ ConvAgain

ConvSpec == ConvInit /\ [][ConvNext]_vars

(***************************************************************************)
(* C11: after convert has completed without error on a tree of regular     *)
(* files and directories, every regular file whose name ends in ".html"    *)
(* has a sibling with the same base name and the extension ".md" (the name *)
(* with ".html" replaced by ".md") that holds the conversion of its        *)
(* normalized content, and every ".md" that was created or changed is the  *)
(* sibling of such a file.                                                 *)
(***************************************************************************)
\* the tree holds regular files and directories only
RegularTree(t) == \A p \in DOMAIN t : t[p].kind \in {"file", "dir"}

\* the sibling of an ".html" file: the extension swapped
SiblingOf(p) == SubSeq(p, 1, Len(p) - Len(HtmlSuffix)) \o MdSuffix

\* the ".html" files of a tree
HtmlFiles(t) == {p \in DOMAIN t : t[p].kind = "file" /\ EndsWith(p, HtmlSuffix)}

\* the conversion of the normalized content of a document
ConversionOf(data) ==
    Markdown(Flatten([n \in 1..Len(Parse(data)) |-> Normalized(Parse(data)[n])]))

C11_Converted ==
    (convPc = "done" /\ run = 1 /\ RegularTree(tree0))
        => /\ \A p \in HtmlFiles(tree0) :
                /\ SiblingOf(p) \in DOMAIN tree
                /\ tree[SiblingOf(p)] = File(ConversionOf(tree0[p].data))
           /\ \A q \in DOMAIN tree :
                (q \notin DOMAIN tree0 \/ tree[q] # tree0[q])
                    => \E p \in HtmlFiles(tree0) : q = SiblingOf(p)

(***************************************************************************)
(* C20: the conversion pass only creates or overwrites files whose name    *)
(* ends in ".md": every entry whose name does not end in ".md" (an ".html" *)
(* file, an attachment, a directory) is in the tree as it was before the   *)
(* pass, every new entry is a regular file whose name ends in ".md", and   *)
(* a second pass over the result of the first leaves the tree unchanged.   *)
(***************************************************************************)
C20_OnlyMd ==
    /\ \A p \in DOMAIN tree0 :
        /\ p \in DOMAIN tree
        /\ (~EndsWith(p, MdSuffix) \/ tree0[p].kind # "file") => tree[p] = tree0[p]
    /\ \A p \in (DOMAIN tree) \ (DOMAIN tree0) :
        EndsWith(p, MdSuffix) /\ tree[p].kind = "file"
    /\ (convPc = "done" /\ run = 2) => tree = tree1

=============================================================================
